---- MODULE Spec2Model ----
(***************************************************************************)
(* Cart -> Order checkout pipeline of super_backend: the cart service, the *)
(* checkout / order service, the stock primitive and the order status      *)
(* lifecycle, over the rows of the products, carts, cart_items, orders and *)
(* order_items tables.  Every repository call commits on its own, so each  *)
(* repository call is one step; a handler is the sequence of its steps.    *)
(* Money is kept in hundredths (cents); values a service computes with     *)
(* Decimal before they are stored are kept in thousandths (mills).         *)
(***************************************************************************)
EXTENDS Integers, Sequences, FiniteSets, TLC

\* ------------------------------------------------------------------ bounds
Products == {1, 2}
Customers == {1, 2}
Sessions == {1, 2}
NoProduct == 0
MaxStock == 2
MaxQty == 2
MaxOrders == 1
MaxClock == 3

\* --------------------------------------------------------- program constants
MaxPerItem == 100
ShippingCost == 1000
TaxPerMille == 100

PENDING == "pending"
CONFIRMED == "confirmed"
PROCESSING == "processing"
SHIPPED == "shipped"
DELIVERED == "delivered"
CANCELLED == "cancelled"
REFUNDED == "refunded"
PAID == "paid"
FAILED == "failed"

OrderStatusValues == {PENDING, CONFIRMED, PROCESSING, SHIPPED, DELIVERED, CANCELLED, REFUNDED}
PaymentStatusValues == {PENDING, PAID, FAILED, REFUNDED}

Prices == {500, 505, 999, 1000}
InitPrice(p) == IF p = 1 THEN 1000 ELSE 500
InitName(p) == IF p = 1 THEN "name1" ELSE "name2"
InitSku(p) == IF p = 1 THEN "sku1" ELSE "sku2"

VARIABLES products, carts, lines, orders, clock, proc, rowlock, last

vars == <<products, carts, lines, orders, clock, proc, rowlock, last>>

\* ------------------------------------------------------------ the database
\* products : product id -> Product row (stock_quantity, price, name, sku, is_active)
\* carts    : customer id -> the ids of the Cart rows of that customer
\* lines    : customer id -> the CartItem rows of that cart, in insertion order
\* orders   : the Order rows in creation order, each with its OrderItem rows
DB == [products |-> products, carts |-> carts, lines |-> lines, orders |-> orders, clock |-> clock]

RECURSIVE SumSeq(_)
SumSeq(s) == IF s = <<>> THEN 0 ELSE Head(s) + SumSeq(Tail(s))

RECURSIVE FilterRows(_, _)
FilterRows(rows, p) ==
    IF rows = <<>> THEN <<>>
    ELSE IF Head(rows).product_id = p THEN FilterRows(Tail(rows), p)
    ELSE <<Head(rows)>> \o FilterRows(Tail(rows), p)

\* CartItem.query.filter_by(cart_id, product_id).first(): index of the row, 0 if none
RowIndex(rows, p) ==
    IF \E i \in 1..Len(rows) : rows[i].product_id = p
    THEN CHOOSE i \in 1..Len(rows) : rows[i].product_id = p /\ \A j \in 1..(i - 1) : rows[j].product_id # p
    ELSE 0

RowQty(rows, p) == IF RowIndex(rows, p) = 0 THEN 0 ELSE rows[RowIndex(rows, p)].quantity

\* sum of the quantities of the rows of product p (cart lines or order items)
QtyOf(rows, p) == SumSeq([i \in 1..Len(rows) |-> IF rows[i].product_id = p THEN rows[i].quantity ELSE 0])

\* Numeric(10, 2) column: a value in mills is stored in cents, rounded to the
\* nearest cent; an exact half is resolved by the database in use (PostgreSQL
\* rounds it up, SQLite's float round trip may give either neighbour).
Numeric2(mills, tieUp) ==
    LET q == mills \div 10
        r == mills % 10
    IN IF r < 5 THEN q ELSE IF r > 5 THEN q + 1 ELSE IF tieUp THEN q + 1 ELSE q

\* CartItem.total_price and Cart.subtotal
CartItemTotalPrice(d, row) == d.products[row.product_id].price * row.quantity
CartSubtotal(d, c) == SumSeq([i \in 1..Len(d.lines[c]) |-> CartItemTotalPrice(d, d.lines[c][i])])

\* ------------------------------------------------------------- repositories
\* faulty variant: the stock is left as it was
ProductRepository_update_stock_Keep(d, p, quantity_change) == d

ProductRepository_update_stock(d, p, quantity_change) ==
    [d EXCEPT !.products[p].stock_quantity = @ + quantity_change]

\* faulty variant: a new name or price is also written into the order items
\* of the product
ProductRepository_update_Cascade(d, p, data) ==
    [d EXCEPT !.products[p] = [f \in DOMAIN @ |-> IF f \in DOMAIN data THEN data[f] ELSE @[f]],
              !.orders = [o \in DOMAIN @ |->
                  [@[o] EXCEPT !.items = [i \in DOMAIN @ |->
                      IF @[i].product_id = p
                      THEN [@[i] EXCEPT !.product_name = IF "name" \in DOMAIN data THEN data.name ELSE @,
                                        !.unit_price = IF "price" \in DOMAIN data THEN data.price ELSE @]
                      ELSE @[i]]]]]

ProductRepository_update(d, p, data) ==
    [d EXCEPT !.products[p] = [f \in DOMAIN @ |-> IF f \in DOMAIN data THEN data[f] ELSE @[f]]]

\* db.session.delete(product) and commit: DELETE FROM products
ProductRepository_delete(d, p) ==
    [d EXCEPT !.products = [r \in DOMAIN d.products \ {p} |-> d.products[r]]]

\* an OrderItem or CartItem row holds the id of product p in its foreign key
Referenced(d, p) ==
    \/ \E o \in DOMAIN d.orders : \E i \in DOMAIN d.orders[o].items : d.orders[o].items[i].product_id = p
    \/ \E c \in Customers : \E i \in DOMAIN d.lines[c] : d.lines[c][i].product_id = p

\* Cart.query.filter_by(customer_id).first()
HasCart(d, c) == d.carts[c] # {}
CartId(d, c) == IF HasCart(d, c) THEN CHOOSE i \in d.carts[c] : \A j \in d.carts[c] : i <= j ELSE 0

\* the autoincrement primary key of the carts table
NextCartId(d) == Cardinality(UNION {d.carts[c] : c \in Customers}) + 1

\* faulty variant: the carts table without the unique constraint
Cart_customer_id_unique_Off(d) == TRUE

\* Cart.customer_id is unique: a commit that would leave two Cart rows of one
\* customer raises IntegrityError
Cart_customer_id_unique(d) == \A c \in Customers : Cardinality(d.carts[c]) <= 1

\* faulty variant: the cart_items table without the unique constraint
unique_cart_product_Off(d) == TRUE

\* unique_cart_product: a commit that would leave two CartItem rows of one
\* product in a cart raises IntegrityError
unique_cart_product(d) ==
    \A c \in Customers : \A i, j \in 1..Len(d.lines[c]) :
        i # j => d.lines[c][i].product_id # d.lines[c][j].product_id

CartRepository_create(d, c) == [d EXCEPT !.carts[c] = @ \cup {NextCartId(d)}]

\* faulty variant: one unit more than asked for
CartRepository_add_item_OneMore(d, c, p, quantity, found) ==
    IF found # 0
    THEN [d EXCEPT !.lines[c][RowIndex(d.lines[c], p)].quantity = found + quantity + 1]
    ELSE [d EXCEPT !.lines[c] = Append(@, [product_id |-> p, quantity |-> quantity + 1])]

\* found: the quantity of the row the query of add_item returned (0: no row).
\* The row found is written with found + quantity, else a row is inserted.
CartRepository_add_item(d, c, p, quantity, found) ==
    IF found # 0
    THEN [d EXCEPT !.lines[c][RowIndex(d.lines[c], p)].quantity = found + quantity]
    ELSE [d EXCEPT !.lines[c] = Append(@, [product_id |-> p, quantity |-> quantity])]

\* faulty variant: the units put into the cart are taken from the stock
CartRepository_update_item_quantity_Reserve(d, c, p, quantity) ==
    [d EXCEPT !.lines[c][RowIndex(d.lines[c], p)].quantity = quantity,
              !.products[p].stock_quantity = @ - quantity]

CartRepository_update_item_quantity(d, c, p, quantity) ==
    [d EXCEPT !.lines[c][RowIndex(d.lines[c], p)].quantity = quantity]

CartRepository_remove_item(d, c, p) == [d EXCEPT !.lines[c] = FilterRows(@, p)]

CartRepository_clear_cart(d, c) == [d EXCEPT !.lines[c] = <<>>]

OrderRepository_create(d, c, subtotal, tax, shipping_cost, total) ==
    [d EXCEPT !.orders = Append(@, [customer_id |-> c,
                                    status |-> PENDING,
                                    payment_status |-> PENDING,
                                    subtotal |-> subtotal,
                                    tax |-> tax,
                                    shipping_cost |-> shipping_cost,
                                    total |-> total,
                                    items |-> <<>>,
                                    confirmed_at |-> 0,
                                    shipped_at |-> 0,
                                    delivered_at |-> 0])]

OrderRepository_add_item(d, o, p, quantity) ==
    [d EXCEPT !.orders[o].items = Append(@, [product_id |-> p,
                                             product_name |-> d.products[p].name,
                                             product_sku |-> d.products[p].sku,
                                             unit_price |-> d.products[p].price,
                                             quantity |-> quantity])]

\* faulty variant: the timestamp of the status is written on every update
OrderRepository_update_status_Restamp(d, o, status) ==
    LET ord == d.orders[o]
    IN [d EXCEPT !.orders[o] =
          [ord EXCEPT !.status = status,
                      !.confirmed_at = IF status = CONFIRMED THEN d.clock ELSE @,
                      !.shipped_at = IF status = SHIPPED THEN d.clock ELSE @,
                      !.delivered_at = IF status = DELIVERED THEN d.clock ELSE @]]

OrderRepository_update_status(d, o, status) ==
    LET ord == d.orders[o]
    IN [d EXCEPT !.orders[o] =
          [ord EXCEPT !.status = status,
                      !.confirmed_at = IF status = CONFIRMED /\ ord.confirmed_at = 0 THEN d.clock ELSE @,
                      !.shipped_at = IF status = SHIPPED /\ ord.shipped_at = 0 THEN d.clock ELSE @,
                      !.delivered_at = IF status = DELIVERED /\ ord.delivered_at = 0 THEN d.clock ELSE @]]

OrderRepository_update_payment_status(d, o, payment_status) ==
    [d EXCEPT !.orders[o].payment_status = payment_status]

\* ------------------------------------------------- request-local state
\* proc[s] is the request in flight on session s, made for customer c: its
\* position (pc), its arguments and the values it has read so far.
Idle == [pc |-> "idle", op |-> "none", role |-> "", status |-> "", c |-> 0, p |-> NoProduct, q |-> 0, o |-> 0,
         subtotal |-> 0, todo |-> <<>>, stock |-> 0, seen |-> 0, found |-> 0, cart_id |-> 0, use_lock |-> FALSE,
         locked |-> NoProduct, expired |-> FALSE, ok |-> FALSE, err |-> "", checked |-> <<>>]

Finished(l) == l.pc \in {"done", "error"}

\* an exception leaves the handler: the session is rolled back or discarded,
\* which gives up the row lock it holds
Fail(d, l, why) ==
    [db |-> d, loc |-> [l EXCEPT !.pc = "error", !.ok = FALSE, !.err = why, !.locked = NoProduct]]

Goto(d, l, pc) == [db |-> d, loc |-> [l EXCEPT !.pc = pc]]

\* --------------------------------------- OrderService.create_order_from_cart
\* faulty variant: only the first cart line is compared with the stock
StockSufficient_FirstLine(d, c) ==
    Len(d.lines[c]) = 0 \/ ~(d.products[d.lines[c][1].product_id].stock_quantity < d.lines[c][1].quantity)

\* lines 25-28: every cart line has enough stock
StockSufficient(d, c) ==
    \A i \in 1..Len(d.lines[c]) : ~(d.products[d.lines[c][i].product_id].stock_quantity < d.lines[c][i].quantity)

\* lines 30-34, on Decimal values (here in mills): 10% tax, flat shipping
OrderTotals(cart_subtotal) ==
    LET subtotal == cart_subtotal * 10
        tax == (subtotal * TaxPerMille) \div 1000
        shipping_cost == ShippingCost * 10
    IN [subtotal |-> subtotal, tax |-> tax, shipping_cost |-> shipping_cost,
        total |-> subtotal + tax + shipping_cost]

\* One step of create_order_from_cart for customer c.  dbError: the database
\* call of this step raises; tieTax, tieTotal: how the database rounds an
\* exact half cent of tax and of total.
CheckoutStep(d, l, c, dbError, tieTax, tieTotal) ==
    CASE l.pc = "start" ->
            IF dbError THEN Fail(d, l, "db")
            ELSE IF ~HasCart(d, c) \/ Len(d.lines[c]) = 0 THEN Fail(d, l, "Cart is empty")
            ELSE IF ~StockSufficient(d, c) THEN Fail(d, l, "Insufficient stock")
            ELSE [db |-> d, loc |-> [l EXCEPT !.pc = "create", !.subtotal = CartSubtotal(d, c),
                                              !.checked = d.lines[c]]]
      [] l.pc = "create" ->
            IF dbError THEN Fail(d, l, "db")
            ELSE LET t == OrderTotals(l.subtotal)
                 IN [db |-> OrderRepository_create(d, c, Numeric2(t.subtotal, TRUE), Numeric2(t.tax, tieTax),
                                                   Numeric2(t.shipping_cost, TRUE), Numeric2(t.total, tieTotal)),
                     loc |-> [l EXCEPT !.pc = "list", !.o = Len(d.orders) + 1]]
      [] l.pc = "list" ->
            IF dbError THEN Fail(d, l, "db")
            ELSE IF Len(d.lines[c]) = 0 THEN Goto(d, l, "clear")
            ELSE [db |-> d,
                  loc |-> [l EXCEPT !.pc = "add_item",
                                    !.todo = [i \in 1..Len(d.lines[c]) |-> d.lines[c][i].product_id]]]
      [] l.pc = "add_item" ->
            IF dbError \/ RowIndex(d.lines[c], Head(l.todo)) = 0 THEN Fail(d, l, "db")
            ELSE Goto(OrderRepository_add_item(d, l.o, Head(l.todo), RowQty(d.lines[c], Head(l.todo))),
                      l, "update_stock")
      [] l.pc = "update_stock" ->
            IF dbError \/ RowIndex(d.lines[c], Head(l.todo)) = 0 THEN Fail(d, l, "db")
            ELSE [db |-> ProductRepository_update_stock(d, Head(l.todo), 0 - RowQty(d.lines[c], Head(l.todo))),
                  loc |-> [l EXCEPT !.pc = IF Len(l.todo) > 1 THEN "add_item" ELSE "clear",
                                    !.todo = Tail(l.todo)]]
      [] l.pc = "clear" ->
            IF dbError THEN Fail(d, l, "db")
            ELSE [db |-> CartRepository_clear_cart(d, c), loc |-> [l EXCEPT !.pc = "done", !.ok = TRUE]]

\* the whole call: its steps in order, the database failing at step failAt
RECURSIVE RunCheckout(_, _, _, _, _, _)
RunCheckout(d, l, c, failAt, tieTax, tieTotal) ==
    IF Finished(l) THEN [db |-> d, loc |-> l]
    ELSE LET r == CheckoutStep(d, l, c, failAt = 0, tieTax, tieTotal)
         IN RunCheckout(r.db, r.loc, c, failAt - 1, tieTax, tieTotal)

CheckoutCall == [Idle EXCEPT !.pc = "start", !.op = "checkout"]

\* the number of database steps of a checkout of a cart of n lines is 2n + 4
FailPoints == 0..(2 * Cardinality(Products) + 4)

Max(S) == CHOOSE x \in S : \A y \in S : y <= x

\* ------------------------------------------------- CartService.add_to_cart
\* One step of add_to_cart(c, l.p, l.q, l.use_lock).  The product row is read
\* in step "lock" (under SELECT ... FOR UPDATE when use_lock); every commit of
\* the session gives the row lock up and expires the rows it has loaded.
AddToCartStep(d, l, c) ==
    CASE l.pc = "start" ->
            IF l.q < 1 THEN Fail(d, l, "Quantity must be at least 1")
            ELSE IF l.q > MaxPerItem THEN Fail(d, l, "Maximum quantity per item is 100")
            ELSE Goto(d, l, "lock")
      [] l.pc = "lock" ->
            IF l.p \notin DOMAIN d.products THEN Fail(d, l, "Product not found")
            ELSE IF ~d.products[l.p].is_active THEN Fail(d, l, "Product is not available")
            ELSE IF d.products[l.p].stock_quantity < l.q THEN Fail(d, l, "Insufficient stock")
            ELSE [db |-> d,
                  loc |-> [l EXCEPT !.pc = "cart", !.stock = d.products[l.p].stock_quantity,
                                    !.locked = IF l.use_lock THEN l.p ELSE NoProduct]]
      [] l.pc = "cart" ->
            \* CartRepository.get_or_create: get_by_customer_id
            IF HasCart(d, c) THEN Goto(d, l, "item") ELSE Goto(d, l, "create_cart")
      [] l.pc = "create_cart" ->
            \* CartRepository.create: INSERT and commit
            LET d2 == CartRepository_create(d, c)
            IN IF ~Cart_customer_id_unique(d2) THEN Fail(d, l, "IntegrityError")
               ELSE [db |-> d2, loc |-> [l EXCEPT !.pc = "item", !.locked = NoProduct, !.expired = TRUE]]
      [] l.pc = "item" ->
            LET existing == RowQty(d.lines[c], l.p)
                stock_quantity == IF l.expired THEN d.products[l.p].stock_quantity ELSE l.stock
            IN IF existing # 0 /\ existing + l.q > stock_quantity THEN Fail(d, l, "Insufficient stock")
               ELSE IF existing # 0 /\ existing + l.q > MaxPerItem THEN Fail(d, l, "Maximum 100 items per product")
               ELSE [db |-> d, loc |-> [l EXCEPT !.pc = "find", !.seen = existing]]
      [] l.pc = "find" ->
            \* CartRepository.add_item queries the row again: a row already
            \* loaded by get_cart_item keeps the quantity seen then (the identity
            \* map does not reload it), any other row is read afresh
            [db |-> d,
             loc |-> [l EXCEPT !.pc = "write",
                               !.found = IF l.seen # 0 /\ RowIndex(d.lines[c], l.p) # 0
                                         THEN l.seen ELSE RowQty(d.lines[c], l.p)]]
      [] l.pc = "write" ->
            \* the commit of CartRepository.add_item: an UPDATE of a row that is
            \* gone or an INSERT of a second row of the product raises
            IF l.found # 0 /\ RowIndex(d.lines[c], l.p) = 0 THEN Fail(d, l, "StaleDataError")
            ELSE LET d2 == CartRepository_add_item(d, c, l.p, l.q, l.found)
                 IN IF ~unique_cart_product(d2) THEN Fail(d, l, "IntegrityError")
                    ELSE [db |-> d2, loc |-> [l EXCEPT !.pc = "done", !.ok = TRUE, !.locked = NoProduct]]

RECURSIVE RunAddToCart(_, _, _)
RunAddToCart(d, l, c) ==
    IF Finished(l) THEN [db |-> d, loc |-> l]
    ELSE LET r == AddToCartStep(d, l, c) IN RunAddToCart(r.db, r.loc, c)

AddToCartCall(p, q, use_lock) ==
    [Idle EXCEPT !.pc = "start", !.op = "add_to_cart", !.p = p, !.q = q, !.use_lock = use_lock]

\* -------------------------------------------- the other cart operations
\* Each of them commits once, at its end.  Result: [db, ok, err].
Ok(d) == [db |-> d, ok |-> TRUE, err |-> ""]
Err(d, why) == [db |-> d, ok |-> FALSE, err |-> why]

CartService_update_cart_item(d, c, p, quantity) ==
    IF quantity < 1 THEN Err(d, "Quantity must be at least 1")
    ELSE IF quantity > MaxPerItem THEN Err(d, "Maximum quantity per item is 100")
    ELSE IF p \notin DOMAIN d.products THEN Err(d, "Product not found")
    ELSE IF d.products[p].stock_quantity < quantity THEN Err(d, "Insufficient stock")
    ELSE IF ~HasCart(d, c) THEN Err(d, "Cart not found")
    ELSE IF RowIndex(d.lines[c], p) = 0 THEN Err(d, "Item not in cart")
    ELSE Ok(CartRepository_update_item_quantity(d, c, p, quantity))

CartService_remove_from_cart(d, c, p) ==
    IF ~HasCart(d, c) THEN Err(d, "Cart not found")
    ELSE IF RowIndex(d.lines[c], p) = 0 THEN Err(d, "Item not in cart")
    ELSE Ok(CartRepository_remove_item(d, c, p))

CartService_clear_cart(d, c) ==
    IF HasCart(d, c) THEN Ok(CartRepository_clear_cart(d, c)) ELSE Ok(d)

\* CartService.get_or_create_cart, one step per database round trip:
\* get_by_customer_id, then CartRepository.create when no row was found
GetOrCreateCartStep(d, l, c) ==
    CASE l.pc = "start" ->
            IF HasCart(d, c)
            THEN [db |-> d, loc |-> [l EXCEPT !.pc = "done", !.ok = TRUE, !.cart_id = CartId(d, c)]]
            ELSE Goto(d, l, "create_cart")
      [] l.pc = "create_cart" ->
            LET d2 == CartRepository_create(d, c)
            IN IF ~Cart_customer_id_unique(d2) THEN Fail(d, l, "Failed to get cart")
               ELSE [db |-> d2, loc |-> [l EXCEPT !.pc = "done", !.ok = TRUE, !.cart_id = NextCartId(d)]]

GetOrCreateCartCall == [Idle EXCEPT !.pc = "start", !.op = "get_or_create_cart"]

RECURSIVE RunGetOrCreateCart(_, _, _)
RunGetOrCreateCart(d, l, c) ==
    IF Finished(l) THEN [db |-> d, loc |-> l]
    ELSE LET r == GetOrCreateCartStep(d, l, c) IN RunGetOrCreateCart(r.db, r.loc, c)

CartService_get_or_create_cart(d, c) ==
    LET r == RunGetOrCreateCart(d, GetOrCreateCartCall, c)
    IN [db |-> r.db, ok |-> r.loc.ok, err |-> r.loc.err]

\* faulty variant: the lines are compared with the stock only
CartService_validate_cart_for_checkout_StockOnly(d, c) ==
    IF ~HasCart(d, c) \/ Len(d.lines[c]) = 0 THEN Err(d, "Cart is empty")
    ELSE IF \A i \in 1..Len(d.lines[c]) :
               d.products[d.lines[c][i].product_id].stock_quantity >= d.lines[c][i].quantity
         THEN Ok(d) ELSE Err(d, "Insufficient stock")

\* the first line that fails decides the message
CartService_validate_cart_for_checkout(d, c) ==
    IF ~HasCart(d, c) \/ Len(d.lines[c]) = 0 THEN Err(d, "Cart is empty")
    ELSE LET rows == d.lines[c]
             bad(i) == \/ ~d.products[rows[i].product_id].is_active
                       \/ d.products[rows[i].product_id].stock_quantity < rows[i].quantity
         IN IF \A i \in 1..Len(rows) : ~bad(i) THEN Ok(d)
            ELSE LET i == CHOOSE k \in 1..Len(rows) : bad(k) /\ \A j \in 1..(k - 1) : ~bad(j)
                 IN IF ~d.products[rows[i].product_id].is_active
                    THEN Err(d, "Product is no longer available")
                    ELSE Err(d, "Insufficient stock")

\* --------------------------------------------------------- ProductService
\* faulty variant: subtract without the check of the result
ProductService_update_stock_NoFloor(d, p, quantity_change, operation) ==
    IF p \notin DOMAIN d.products THEN Err(d, "Product not found")
    ELSE LET old_stock == d.products[p].stock_quantity
         IN CASE operation = "add" ->
                    Ok(ProductRepository_update(d, p, [stock_quantity |-> old_stock + quantity_change]))
              [] operation = "subtract" ->
                    Ok(ProductRepository_update(d, p, [stock_quantity |-> old_stock - quantity_change]))
              [] operation = "set" ->
                    IF quantity_change < 0 THEN Err(d, "Stock quantity cannot be negative")
                    ELSE Ok(ProductRepository_update(d, p, [stock_quantity |-> quantity_change]))
              [] OTHER -> Err(d, "Invalid operation")

ProductService_update_stock(d, p, quantity_change, operation) ==
    IF p \notin DOMAIN d.products THEN Err(d, "Product not found")
    ELSE LET old_stock == d.products[p].stock_quantity
         IN CASE operation = "add" ->
                    Ok(ProductRepository_update(d, p, [stock_quantity |-> old_stock + quantity_change]))
              [] operation = "subtract" ->
                    IF old_stock - quantity_change < 0 THEN Err(d, "Insufficient stock")
                    ELSE Ok(ProductRepository_update(d, p, [stock_quantity |-> old_stock - quantity_change]))
              [] operation = "set" ->
                    IF quantity_change < 0 THEN Err(d, "Stock quantity cannot be negative")
                    ELSE Ok(ProductRepository_update(d, p, [stock_quantity |-> quantity_change]))
              [] OTHER -> Err(d, "Invalid operation")

\* DELETE /api/products/<id>/permanent.  The route makes no check of its own;
\* fk_enforced: the database checks foreign keys (PostgreSQL does, SQLite
\* does only after PRAGMA foreign_keys = ON, which the application never
\* issues) and then refuses the DELETE of a referenced row.
Route_permanently_delete_product(d, p, fk_enforced) ==
    IF p \notin DOMAIN d.products THEN Err(d, "Product not found")
    ELSE IF fk_enforced /\ Referenced(d, p) THEN Err(d, "Failed to delete product")
    ELSE Ok(ProductRepository_delete(d, p))

\* PUT /api/products/bulk-stock: the entries are applied one after the other,
\* each by its own update_stock call; an entry that fails is counted and the
\* loop goes on.  Result: [db, success, failed].
RECURSIVE Route_bulk_update_stock(_, _)
Route_bulk_update_stock(d, updates) ==
    IF updates = <<>> THEN [db |-> d, success |-> 0, failed |-> 0]
    ELSE LET u == Head(updates)
             r == IF u.product_id = NoProduct THEN Err(d, "Missing data")
                  ELSE ProductService_update_stock(d, u.product_id, u.quantity, "set")
             rest == Route_bulk_update_stock(r.db, Tail(updates))
         IN [db |-> rest.db,
             success |-> rest.success + (IF r.ok THEN 1 ELSE 0),
             failed |-> rest.failed + (IF r.ok THEN 0 ELSE 1)]

\* data: the fields to update, a record over a subset of price, stock_quantity, name, sku, is_active
ProductService_update_product(d, p, data) ==
    IF p \notin DOMAIN d.products THEN Err(d, "Product not found")
    ELSE IF "price" \in DOMAIN data /\ data.price <= 0 THEN Err(d, "Price must be greater than 0")
    ELSE IF "stock_quantity" \in DOMAIN data /\ data.stock_quantity < 0 THEN Err(d, "Stock quantity cannot be negative")
    ELSE IF "sku" \in DOMAIN data /\ data.sku # d.products[p].sku
            /\ \E r \in DOMAIN d.products : d.products[r].sku = data.sku THEN Err(d, "SKU already exists")
    ELSE Ok(ProductRepository_update(d, p, data))

ProductService_delete_product(d, p) ==
    IF p \notin DOMAIN d.products THEN Err(d, "Product not found")
    ELSE Ok(ProductRepository_update(d, p, [is_active |-> FALSE]))

\* ----------------------------------------------------------- OrderService
\* faulty variant: nothing is put back
RestoreStock_Nothing(d, items) == d

\* for item in order.items: ProductRepository.update_stock(item.product, item.quantity)
RECURSIVE RestoreStock(_, _)
RestoreStock(d, items) ==
    IF items = <<>> THEN d
    ELSE RestoreStock(ProductRepository_update_stock(d, Head(items).product_id, Head(items).quantity),
                      Tail(items))

OrderService_update_order_status(d, o, status) ==
    IF status \notin OrderStatusValues THEN Err(d, "Invalid status")
    ELSE IF o \notin DOMAIN d.orders THEN Err(d, "Order not found")
    ELSE LET ord == d.orders[o]
             d1 == IF status = CANCELLED /\ ord.status \notin {CANCELLED, REFUNDED}
                   THEN RestoreStock(d, ord.items) ELSE d
             d2 == IF status = REFUNDED /\ ord.status # CANCELLED
                   THEN RestoreStock(d1, ord.items) ELSE d1
         IN Ok(OrderRepository_update_status(d2, o, status))

OrderService_update_payment_status(d, o, payment_status) ==
    IF payment_status \notin PaymentStatusValues THEN Err(d, "Invalid payment status")
    ELSE IF o \notin DOMAIN d.orders THEN Err(d, "Order not found")
    ELSE Ok(OrderRepository_update_payment_status(d, o, payment_status))

OrderService_cancel_order(d, o) ==
    IF o \notin DOMAIN d.orders THEN Err(d, "Order not found")
    ELSE IF d.orders[o].status \in {CANCELLED, REFUNDED} THEN Err(d, "Order is already cancelled or refunded")
    ELSE IF d.orders[o].status = DELIVERED THEN Err(d, "Cannot cancel delivered order")
    ELSE Ok(RestoreStock(OrderRepository_update_status(d, o, CANCELLED), d.orders[o].items))

\* routes/order_routes.py process_refund: status, then payment status
Route_process_refund(d, o) ==
    LET r == OrderService_update_order_status(d, o, REFUNDED)
    IN IF ~r.ok THEN r ELSE OrderService_update_payment_status(r.db, o, REFUNDED)

\* ------------------------------------------------- routes/order_routes.py
ADMIN == "admin"
MANAGER == "manager"
CASHIER == "cashier"
CUSTOMER == "customer"
Roles == {ADMIN, MANAGER, CASHIER, CUSTOMER}

staff_required(role) == role \in {ADMIN, MANAGER, CASHIER}
admin_only(role) == role = ADMIN

\* faulty variant: a manager may set the status refunded
Route_update_order_status_Manager(d, role, o, status) ==
    IF ~staff_required(role) THEN Err(d, "Staff access required")
    ELSE IF status \notin OrderStatusValues THEN Err(d, "Invalid status")
    ELSE IF role = CASHIER /\ status \notin {CONFIRMED, PROCESSING}
         THEN Err(d, "Cashiers can only update status to: confirmed, processing")
    ELSE OrderService_update_order_status(d, o, status)

\* PUT /api/orders/<id>/status
Route_update_order_status(d, role, o, status) ==
    IF ~staff_required(role) THEN Err(d, "Staff access required")
    ELSE IF status \notin OrderStatusValues THEN Err(d, "Invalid status")
    ELSE IF role = CASHIER /\ status \notin {CONFIRMED, PROCESSING}
         THEN Err(d, "Cashiers can only update status to: confirmed, processing")
    ELSE IF role = MANAGER /\ status = REFUNDED THEN Err(d, "Only admins can set status to refunded")
    ELSE OrderService_update_order_status(d, o, status)

\* PUT /api/orders/<id>/payment-status
Route_update_payment_status(d, role, o, payment_status) ==
    IF ~staff_required(role) THEN Err(d, "Staff access required")
    ELSE IF payment_status \notin PaymentStatusValues THEN Err(d, "Invalid payment status")
    ELSE IF payment_status = REFUNDED /\ ~admin_only(role)
         THEN Err(d, "Only admins can set payment status to refunded")
    ELSE OrderService_update_payment_status(d, o, payment_status)

\* POST /api/orders/<id>/ship
Route_mark_as_shipped(d, role, o) ==
    IF ~staff_required(role) THEN Err(d, "Staff access required")
    ELSE OrderService_update_order_status(d, o, SHIPPED)

\* POST /api/orders/<id>/refund, one step per service call; each service call
\* commits before the next begins.  dbError: the database fails in this step.
ProcessRefundStep(d, l, dbError) ==
    CASE l.pc = "start" ->
            IF ~admin_only(l.role) THEN Fail(d, l, "Admin access only") ELSE Goto(d, l, "status")
      [] l.pc = "status" ->
            LET r == OrderService_update_order_status(d, l.o, REFUNDED)
            IN IF dbError THEN Fail(d, l, "Failed to process refund")
               ELSE IF ~r.ok THEN Fail(d, l, r.err)
               ELSE [db |-> r.db, loc |-> [l EXCEPT !.pc = "payment"]]
      [] l.pc = "payment" ->
            LET r == OrderService_update_payment_status(d, l.o, REFUNDED)
            IN IF dbError THEN Fail(d, l, "Failed to process refund")
               ELSE IF ~r.ok THEN Fail(d, l, r.err)
               ELSE [db |-> r.db, loc |-> [l EXCEPT !.pc = "notes"]]
      [] l.pc = "notes" ->
            \* OrderRepository.update(order, admin_notes=notes)
            IF dbError THEN Fail(d, l, "Failed to process refund")
            ELSE [db |-> d, loc |-> [l EXCEPT !.pc = "done", !.ok = TRUE]]

ProcessRefundCall(role, o) == [Idle EXCEPT !.pc = "start", !.op = "process_refund", !.role = role, !.o = o]

RefundFailPoints == {"none", "status", "payment", "notes"}

RECURSIVE RunProcessRefund(_, _, _)
RunProcessRefund(d, l, failAt) ==
    IF Finished(l) THEN [db |-> d, loc |-> l]
    ELSE LET r == ProcessRefundStep(d, l, l.pc = failAt) IN RunProcessRefund(r.db, r.loc, failAt)

\* the statuses the cancel route refuses
NotCancellable == {DELIVERED, CANCELLED, REFUNDED}

CancelRouteRefuses(status) == status \in NotCancellable

\* POST /api/orders/<id>/cancel: the route reads the order and checks its
\* status, then calls update_order_status.  The service gets the order from
\* the session, which holds the Order it loaded for the check: the status
\* the service sees is the status the route saw.
CancelRouteStep(d, l, c) ==
    CASE l.pc = "start" ->
            IF l.o \notin DOMAIN d.orders THEN Fail(d, l, "Order not found")
            ELSE IF d.orders[l.o].customer_id # c THEN Fail(d, l, "Unauthorized access to order")
            ELSE IF CancelRouteRefuses(d.orders[l.o].status) THEN Fail(d, l, "Cannot cancel order")
            ELSE [db |-> d, loc |-> [l EXCEPT !.pc = "update", !.status = d.orders[l.o].status]]
      [] l.pc = "update" ->
            LET view == [d EXCEPT !.orders[l.o].status = l.status]
                r == OrderService_update_order_status(view, l.o, CANCELLED)
            IN IF ~r.ok THEN Fail(d, l, r.err)
               ELSE [db |-> r.db, loc |-> [l EXCEPT !.pc = "done", !.ok = TRUE]]

CancelRouteCall(c, o) == [Idle EXCEPT !.pc = "start", !.op = "cancel_route", !.role = CUSTOMER, !.c = c, !.o = o]

RECURSIVE RunCancelRoute(_, _, _)
RunCancelRoute(d, l, c) ==
    IF Finished(l) THEN [db |-> d, loc |-> l]
    ELSE LET r == CancelRouteStep(d, l, c) IN RunCancelRoute(r.db, r.loc, c)

\* ------------------------------------------------------------------ actions
\* last: the request that ended in the latest step and its outcome
\* (op = "step" while a request is under way); o is the order it is about
\* role is the role of the caller where the route branches on it, p the
\* product a cart or stock request is about, q the quantity of a stock request
Last(op, ok, err, c, o, arg) ==
    [op |-> op, ok |-> ok, err |-> err, c |-> c, o |-> o, arg |-> arg, role |-> "", p |-> NoProduct, q |-> 0]

\* a specification that keeps no history starts with last.op = "off"
SetLast(x) == last' = IF last.op = "off" THEN last ELSE x

Apply(d) ==
    /\ products' = d.products
    /\ carts' = d.carts
    /\ lines' = d.lines
    /\ orders' = d.orders
    /\ clock' = d.clock

AllIdle == \A s \in Sessions : proc[s].pc = "idle"

StockWithin(d, lo, hi) == \A p \in DOMAIN d.products : d.products[p].stock_quantity \in lo..hi

Quantities == 1..MaxQty

\* POST /api/cart/items
AddToCart(c, p, q) ==
    /\ AllIdle
    /\ LET r == RunAddToCart(DB, AddToCartCall(p, q, TRUE), c)
       IN /\ Apply(r.db)
          /\ SetLast([Last("add_to_cart", r.loc.ok, r.loc.err, c, 0, "") EXCEPT !.p = p])
    /\ UNCHANGED <<proc, rowlock>>

\* POST /api/orders
Checkout(c, failAt, tieTax, tieTotal) ==
    /\ AllIdle
    /\ Len(orders) < MaxOrders
    /\ LET r == RunCheckout(DB, CheckoutCall, c, failAt, tieTax, tieTotal)
       IN /\ Apply(r.db)
          /\ SetLast(Last("checkout", r.loc.ok, r.loc.err, c, r.loc.o, ""))
    /\ UNCHANGED <<proc, rowlock>>

\* PUT /api/products/<id>/stock
AdjustStock(p, quantity_change, operation) ==
    /\ AllIdle
    /\ LET r == ProductService_update_stock(DB, p, quantity_change, operation)
       IN /\ StockWithin(r.db, 0 - 1, MaxStock)
          /\ Apply(r.db)
          /\ SetLast([Last("update_stock", r.ok, r.err, 0, 0, operation) EXCEPT !.p = p, !.q = quantity_change])
    /\ UNCHANGED <<proc, rowlock>>

\* DELETE /api/products/<id>/permanent
PermanentlyDeleteProduct(p, fk_enforced) ==
    /\ AllIdle
    /\ LET r == Route_permanently_delete_product(DB, p, fk_enforced)
       IN /\ Apply(r.db)
          /\ SetLast([Last("permanently_delete_product", r.ok, r.err, 0, 0, "") EXCEPT !.p = p])
    /\ UNCHANGED <<proc, rowlock>>

\* PUT /api/products/bulk-stock
BulkUpdateStock(updates) ==
    /\ AllIdle
    /\ LET r == Route_bulk_update_stock(DB, updates)
       IN /\ Apply(r.db)
          /\ SetLast(Last("bulk_update_stock", r.failed = 0, IF r.failed = 0 THEN "" ELSE "errors", 0, 0, ""))
    /\ UNCHANGED <<proc, rowlock>>

\* PUT /api/orders/<id>/status
UpdateOrderStatus(o, status) ==
    /\ AllIdle
    /\ LET r == OrderService_update_order_status(DB, o, status)
       IN /\ StockWithin(r.db, 0 - 1, MaxStock + MaxQty)
          /\ Apply(r.db)
          /\ SetLast(Last("update_order_status", r.ok, r.err, 0, o, status))
    /\ UNCHANGED <<proc, rowlock>>

\* OrderService.cancel_order
CancelOrder(o) ==
    /\ AllIdle
    /\ LET r == OrderService_cancel_order(DB, o)
       IN /\ StockWithin(r.db, 0 - 1, MaxStock + MaxQty)
          /\ Apply(r.db)
          /\ SetLast(Last("cancel_order", r.ok, r.err, 0, o, ""))
    /\ UNCHANGED <<proc, rowlock>>

\* POST /api/orders/<id>/refund
ProcessRefund(o) ==
    /\ AllIdle
    /\ LET r == Route_process_refund(DB, o)
       IN /\ StockWithin(r.db, 0 - 1, MaxStock + MaxQty)
          /\ Apply(r.db)
          /\ SetLast(Last("process_refund", r.ok, r.err, 0, o, ""))
    /\ UNCHANGED <<proc, rowlock>>

\* PUT /api/orders/<id>/payment-status
UpdatePaymentStatus(o, payment_status) ==
    /\ AllIdle
    /\ LET r == OrderService_update_payment_status(DB, o, payment_status)
       IN /\ Apply(r.db)
          /\ SetLast(Last("update_payment_status", r.ok, r.err, 0, o, payment_status))
    /\ UNCHANGED <<proc, rowlock>>

\* PUT /api/cart/items/<product_id>
UpdateCartItem(c, p, q) ==
    /\ AllIdle
    /\ LET r == CartService_update_cart_item(DB, c, p, q)
       IN /\ Apply(r.db)
          /\ SetLast([Last("update_cart_item", r.ok, r.err, c, 0, "") EXCEPT !.p = p])
    /\ UNCHANGED <<proc, rowlock>>

\* DELETE /api/cart/items/<product_id>
RemoveFromCart(c, p) ==
    /\ AllIdle
    /\ LET r == CartService_remove_from_cart(DB, c, p)
       IN /\ Apply(r.db)
          /\ SetLast([Last("remove_from_cart", r.ok, r.err, c, 0, "") EXCEPT !.p = p])
    /\ UNCHANGED <<proc, rowlock>>

\* POST /api/cart/clear
ClearCart(c) ==
    /\ AllIdle
    /\ LET r == CartService_clear_cart(DB, c)
       IN /\ Apply(r.db)
          /\ SetLast(Last("clear_cart", r.ok, r.err, c, 0, ""))
    /\ UNCHANGED <<proc, rowlock>>

\* CartService.get_or_create_cart
GetOrCreateCart(c) ==
    /\ AllIdle
    /\ LET r == CartService_get_or_create_cart(DB, c)
       IN /\ Apply(r.db)
          /\ SetLast(Last("get_or_create_cart", r.ok, r.err, c, 0, ""))
    /\ UNCHANGED <<proc, rowlock>>

\* GET /api/cart/validate
ValidateCart(c) ==
    /\ AllIdle
    /\ LET r == CartService_validate_cart_for_checkout(DB, c)
       IN /\ Apply(r.db)
          /\ SetLast(Last("validate_cart_for_checkout", r.ok, r.err, c, 0, ""))
    /\ UNCHANGED <<proc, rowlock>>

\* PUT /api/products/<id>
UpdateProduct(p, data) ==
    /\ AllIdle
    /\ LET r == ProductService_update_product(DB, p, data)
       IN /\ Apply(r.db)
          /\ SetLast(Last("update_product", r.ok, r.err, 0, 0, ""))
    /\ UNCHANGED <<proc, rowlock>>

\* DELETE /api/products/<id>
DeleteProduct(p) ==
    /\ AllIdle
    /\ LET r == ProductService_delete_product(DB, p)
       IN /\ Apply(r.db)
          /\ SetLast(Last("delete_product", r.ok, r.err, 0, 0, ""))
    /\ UNCHANGED <<proc, rowlock>>

\* ---------------------------------------- the order routes, by role of the
\* caller.  A staff request is served as one step; it may come between the
\* steps of a request in flight on another session.
StatusRequest(role, o, status) ==
    /\ LET r == Route_update_order_status(DB, role, o, status)
       IN /\ StockWithin(r.db, 0 - 1, MaxStock + MaxQty)
          /\ Apply(r.db)
          /\ SetLast([Last("update_order_status", r.ok, r.err, 0, o, status) EXCEPT !.role = role])
    /\ UNCHANGED <<proc, rowlock>>

PaymentStatusRequest(role, o, payment_status) ==
    /\ LET r == Route_update_payment_status(DB, role, o, payment_status)
       IN /\ Apply(r.db)
          /\ SetLast([Last("update_payment_status", r.ok, r.err, 0, o, payment_status) EXCEPT !.role = role])
    /\ UNCHANGED <<proc, rowlock>>

ShipRequest(role, o) ==
    /\ LET r == Route_mark_as_shipped(DB, role, o)
       IN /\ StockWithin(r.db, 0 - 1, MaxStock + MaxQty)
          /\ Apply(r.db)
          /\ SetLast([Last("mark_as_shipped", r.ok, r.err, 0, o, SHIPPED) EXCEPT !.role = role])
    /\ UNCHANGED <<proc, rowlock>>

RefundRequest(role, o, failAt) ==
    /\ LET r == RunProcessRefund(DB, ProcessRefundCall(role, o), failAt)
       IN /\ StockWithin(r.db, 0 - 1, MaxStock + MaxQty)
          /\ Apply(r.db)
          /\ SetLast([Last("process_refund", r.loc.ok, r.loc.err, 0, o, failAt) EXCEPT !.role = role])
    /\ UNCHANGED <<proc, rowlock>>

CancelRequest(c, o) ==
    /\ LET r == RunCancelRoute(DB, CancelRouteCall(c, o), c)
       IN /\ StockWithin(r.db, 0 - 1, MaxStock + MaxQty)
          /\ Apply(r.db)
          /\ SetLast([Last("cancel_route", r.loc.ok, r.loc.err, c, o, CANCELLED) EXCEPT !.role = CUSTOMER])
    /\ UNCHANGED <<proc, rowlock>>

BeginCancel(s, c, o) ==
    /\ proc[s].pc = "idle"
    /\ proc' = [proc EXCEPT ![s] = CancelRouteCall(c, o)]
    /\ UNCHANGED <<products, carts, lines, orders, clock, rowlock, last>>

StepCancel(s) ==
    /\ proc[s].op = "cancel_route"
    /\ ~Finished(proc[s])
    /\ LET r == CancelRouteStep(DB, proc[s], proc[s].c)
       IN /\ StockWithin(r.db, 0 - 1, MaxStock + MaxQty)
          /\ Apply(r.db)
          /\ proc' = [proc EXCEPT ![s] = r.loc]
    /\ UNCHANGED <<rowlock, last>>

BeginRefund(s, role, o) ==
    /\ proc[s].pc = "idle"
    /\ proc' = [proc EXCEPT ![s] = ProcessRefundCall(role, o)]
    /\ UNCHANGED <<products, carts, lines, orders, clock, rowlock, last>>

StepRefund(s, dbError) ==
    /\ proc[s].op = "process_refund"
    /\ ~Finished(proc[s])
    /\ LET r == ProcessRefundStep(DB, proc[s], dbError)
       IN /\ StockWithin(r.db, 0 - 1, MaxStock + MaxQty)
          /\ Apply(r.db)
          /\ proc' = [proc EXCEPT ![s] = r.loc]
    /\ UNCHANGED <<rowlock, last>>

\* the response has been sent
Return(c) ==
    /\ Finished(proc[c])
    /\ proc' = [proc EXCEPT ![c] = Idle]
    /\ UNCHANGED <<products, carts, lines, orders, clock, rowlock, last>>

InitProducts(stocks, prices) ==
    [p \in Products |-> [stock_quantity |-> stocks[p], price |-> prices[p], name |-> InitName(p),
                         sku |-> InitSku(p), is_active |-> TRUE]]

InitRest ==
    /\ carts = [c \in Customers |-> {}]
    /\ lines = [c \in Customers |-> <<>>]
    /\ orders = <<>>
    /\ clock = 1
    /\ proc = [s \in Sessions |-> Idle]
    /\ rowlock = [p \in Products |-> 0]
    /\ last = Last("none", TRUE, "", 0, 0, "")

\* the customer of the specifications that run one request at a time
Shoppers == {1}

\* the product the order, the cart and the updates are about
Ordered == {1}

\* ---------------------------------------------- the storefront, one request
\* at a time: cart additions, checkouts and stock adjustments
Init ==
    /\ \E stocks \in [Products -> 0..MaxStock] : products = InitProducts(stocks, [p \in Products |-> InitPrice(p)])
    /\ InitRest

Next ==
    \/ \E c \in Shoppers, p \in Products \cup {NoProduct}, q \in Quantities : AddToCart(c, p, q)
    \/ \E c \in Shoppers : Checkout(c, Max(FailPoints), TRUE, TRUE)
    \/ \E p \in Products \cup {NoProduct}, q \in (0 - MaxQty)..MaxQty,
          operation \in {"add", "subtract", "set", "replace"} : AdjustStock(p, q, operation)

Spec == Init /\ [][Next]_vars

\* ------------------------------------------------- checkout, one request at
\* a time, where the database may fail at any step of a checkout
NextCheckout ==
    \/ \E c \in Shoppers, p \in Products \cup {NoProduct}, q \in Quantities : AddToCart(c, p, q)
    \/ \E c \in Shoppers, failAt \in FailPoints : Checkout(c, failAt, TRUE, TRUE)

SpecCheckout == Init /\ [][NextCheckout]_vars

\* ------------------------------------------------ order totals: carts over
\* products of every price, checkouts under either rounding of a half cent
InitTotals ==
    /\ \E prices \in [Products -> Prices] : products = InitProducts([p \in Products |-> MaxStock], prices)
    /\ InitRest

NextTotals ==
    \/ \E c \in Shoppers, p \in Products, q \in Quantities : AddToCart(c, p, q)
    \/ \E c \in Shoppers, tieTax, tieTotal \in BOOLEAN : Checkout(c, Max(FailPoints), tieTax, tieTotal)

SpecTotals == InitTotals /\ [][NextTotals]_vars

\* ------------------------------------------------ the order lifecycle: the
\* store after one checkout of a shopper, then status updates, cancellations
\* and refunds of that order
OrderIds == 0..MaxOrders

AfterCheckout(stocks, c, cartlines) ==
    RunCheckout([products |-> InitProducts(stocks, [p \in Products |-> InitPrice(p)]),
                 carts |-> [x \in Customers |-> IF x = c THEN {1} ELSE {}],
                 lines |-> [x \in Customers |-> IF x = c THEN cartlines ELSE <<>>],
                 orders |-> <<>>,
                 clock |-> 1],
                CheckoutCall, c, Max(FailPoints), TRUE, TRUE)

\* the carts add_to_cart can build: at most one line per product
CartLines ==
    {<<>>} \cup {<<[product_id |-> p, quantity |-> q]>> : p \in Products, q \in Quantities}
    \cup {two \in {<<[product_id |-> p1, quantity |-> q1], [product_id |-> p2, quantity |-> q2]>> :
                        p1 \in Products, p2 \in Products, q1 \in Quantities, q2 \in Quantities} :
            two[1].product_id # two[2].product_id}

InitLifecycle ==
    /\ \E stocks \in [Products -> 0..MaxStock], c \in Shoppers, cartlines \in CartLines :
          LET r == AfterCheckout(stocks, c, cartlines)
          IN /\ r.loc.ok
             /\ products = r.db.products
             /\ carts = r.db.carts
             /\ lines = r.db.lines
             /\ orders = r.db.orders
    /\ clock = 1
    /\ proc = [s \in Sessions |-> Idle]
    /\ rowlock = [p \in Products |-> 0]
    /\ last = Last("checkout", TRUE, "", CHOOSE c \in Shoppers : TRUE, 1, "")

NextLifecycle ==
    \/ \E o \in OrderIds, status \in OrderStatusValues \cup {"returned"} : UpdateOrderStatus(o, status)
    \/ \E o \in OrderIds : CancelOrder(o)
    \/ \E o \in OrderIds : ProcessRefund(o)

SpecLifecycle == InitLifecycle /\ [][NextLifecycle]_vars

\* -------------------------------------------- the status timestamps: one
\* order, status updates, cancellations and refunds while time passes
Tick ==
    /\ clock < MaxClock
    /\ clock' = clock + 1
    /\ UNCHANGED <<products, carts, lines, orders, proc, rowlock, last>>

InitStamps ==
    /\ \E c \in Shoppers, p \in Ordered, q \in Quantities :
          LET r == AfterCheckout([x \in Products |-> MaxStock], c, <<[product_id |-> p, quantity |-> q]>>)
          IN /\ r.loc.ok
             /\ products = r.db.products
             /\ carts = r.db.carts
             /\ lines = r.db.lines
             /\ orders = r.db.orders
    /\ clock = 1
    /\ proc = [s \in Sessions |-> Idle]
    /\ rowlock = [p \in Products |-> 0]
    /\ last = Last("off", TRUE, "", 0, 0, "")

NextStamps ==
    \/ Tick
    \/ \E o \in OrderIds, status \in OrderStatusValues : UpdateOrderStatus(o, status)
    \/ \E o \in OrderIds : CancelOrder(o)
    \/ \E o \in OrderIds : ProcessRefund(o)

SpecStamps == InitStamps /\ [][NextStamps]_vars

\* -------------------------------------------- the catalogue after one
\* checkout: soft and permanent deletions and stock updates of the products
InitDelete == InitLifecycle

NextDelete ==
    \/ \E p \in Products, fk_enforced \in BOOLEAN : PermanentlyDeleteProduct(p, fk_enforced)
    \/ \E p \in Products : DeleteProduct(p)
    \/ \E p \in Products, q \in 0..MaxStock : AdjustStock(p, q, "set")

SpecDelete == InitDelete /\ [][NextDelete]_vars

\* -------------------------------------------- the order routes called by
\* every role, one request at a time, on the order of one checkout
InitRoles ==
    /\ \E c \in Shoppers, p \in Ordered :
          LET r == AfterCheckout([x \in Products |-> MaxStock], c, <<[product_id |-> p, quantity |-> MaxQty]>>)
          IN /\ r.loc.ok
             /\ products = r.db.products
             /\ carts = r.db.carts
             /\ lines = r.db.lines
             /\ orders = r.db.orders
    /\ clock = 1
    /\ proc = [s \in Sessions |-> Idle]
    /\ rowlock = [p \in Products |-> 0]
    /\ last = Last("checkout", TRUE, "", CHOOSE c \in Shoppers : TRUE, 1, "")

NextRoles ==
    \/ \E role \in Roles, o \in DOMAIN orders, status \in OrderStatusValues \cup {"returned"} :
          StatusRequest(role, o, status)
    \/ \E role \in Roles, o \in DOMAIN orders, payment_status \in PaymentStatusValues :
          PaymentStatusRequest(role, o, payment_status)
    \/ \E role \in Roles, o \in DOMAIN orders : ShipRequest(role, o)
    \/ \E role \in Roles, o \in DOMAIN orders, failAt \in RefundFailPoints : RefundRequest(role, o, failAt)
    \/ \E c \in Customers, o \in DOMAIN orders : CancelRequest(c, o)

SpecRoles == InitRoles /\ [][NextRoles]_vars

\* -------------------------------------------- a customer's cancellation and
\* an admin's refund, step by step, with staff requests in between
InitOrderRace ==
    /\ \E c \in Shoppers, p \in Ordered, q \in Quantities :
          LET r == AfterCheckout([x \in Products |-> MaxStock], c, <<[product_id |-> p, quantity |-> q]>>)
          IN /\ r.loc.ok
             /\ products = r.db.products
             /\ carts = r.db.carts
             /\ lines = r.db.lines
             /\ orders = r.db.orders
    /\ clock = 1
    /\ proc = [s \in Sessions |-> Idle]
    /\ rowlock = [p \in Products |-> 0]
    /\ last = Last("off", TRUE, "", 0, 0, "")

NextOrderRace ==
    \/ \E s \in Sessions, c \in Shoppers, o \in OrderIds : BeginCancel(s, c, o)
    \/ \E s \in Sessions : StepCancel(s)
    \/ \E s \in Sessions, o \in OrderIds : BeginRefund(s, ADMIN, o)
    \/ \E s \in Sessions : StepRefund(s, FALSE)
    \/ \E s \in Sessions : Return(s)
    \/ \E role \in {MANAGER, CASHIER}, o \in OrderIds, status \in OrderStatusValues :
          StatusRequest(role, o, status)

SpecOrderRace == InitOrderRace /\ [][NextOrderRace]_vars

\* -------------------------------------------- checkouts of any cart against
\* any stock: the shopper has no cart, an empty cart or a cart of lines, and
\* the stock is set between the checkouts
InitReject ==
    /\ \E stocks \in [Products -> 0..MaxStock], c \in Shoppers, has_cart \in BOOLEAN, cartlines \in CartLines :
          /\ has_cart \/ cartlines = <<>>
          /\ products = InitProducts(stocks, [p \in Products |-> InitPrice(p)])
          /\ carts = [x \in Customers |-> IF x = c /\ has_cart THEN {1} ELSE {}]
          /\ lines = [x \in Customers |-> IF x = c THEN cartlines ELSE <<>>]
    /\ orders = <<>>
    /\ clock = 1
    /\ proc = [s \in Sessions |-> Idle]
    /\ rowlock = [p \in Products |-> 0]
    /\ last = Last("none", TRUE, "", 0, 0, "")

NextReject ==
    \/ \E c \in Shoppers : Checkout(c, Max(FailPoints), TRUE, TRUE)
    \/ \E p \in Products, q \in 0..MaxStock : AdjustStock(p, q, "set")

SpecReject == InitReject /\ [][NextReject]_vars

\* ------------------------------------------- requests that interleave
\* A request of customer c runs one database step at a time; the steps of the
\* requests of different customers interleave freely.
BeginCheckout(c) ==
    /\ proc[c].pc = "idle"
    /\ \A o \in DOMAIN orders : orders[o].customer_id # c
    /\ proc' = [proc EXCEPT ![c] = CheckoutCall]
    /\ UNCHANGED <<products, carts, lines, orders, clock, rowlock, last>>

StepCheckout(c) ==
    /\ proc[c].op = "checkout"
    /\ ~Finished(proc[c])
    /\ LET r == CheckoutStep(DB, proc[c], c, FALSE, TRUE, TRUE)
       IN /\ Apply(r.db)
          /\ proc' = [proc EXCEPT ![c] = r.loc]
    /\ UNCHANGED <<rowlock, last>>

\* a cart request of customer c served from start to end on a session of its
\* own; it may come between the steps of a request in flight
CartRequest(op, c, p, q) ==
    /\ LET r == CASE op = "add_to_cart" ->
                      LET x == RunAddToCart(DB, AddToCartCall(p, q, TRUE), c)
                      IN [db |-> x.db, ok |-> x.loc.ok, err |-> x.loc.err]
                   [] op = "update_cart_item" -> CartService_update_cart_item(DB, c, p, q)
                   [] op = "remove_from_cart" -> CartService_remove_from_cart(DB, c, p)
       IN /\ Apply(r.db)
          /\ SetLast([Last(op, r.ok, r.err, c, 0, "") EXCEPT !.p = p])
    /\ UNCHANGED <<proc, rowlock>>

\* PUT /api/products/<id> of an admin, served likewise
ProductRequest(p, data) ==
    /\ LET r == ProductService_update_product(DB, p, data)
       IN /\ Apply(r.db)
          /\ SetLast(Last("update_product", r.ok, r.err, 0, 0, ""))
    /\ UNCHANGED <<proc, rowlock>>

BeginAddToCart(s, c, p, q, use_lock) ==
    /\ proc[s].pc = "idle"
    /\ proc' = [proc EXCEPT ![s] = [AddToCartCall(p, q, use_lock) EXCEPT !.c = c]]
    /\ UNCHANGED <<products, carts, lines, orders, clock, rowlock, last>>

\* SELECT ... FOR UPDATE waits while another session holds the row lock; the
\* lock goes with the commit or rollback that ends the holder's transaction
StepAddToCart(s) ==
    /\ proc[s].op = "add_to_cart"
    /\ ~Finished(proc[s])
    /\ (proc[s].pc = "lock" /\ proc[s].use_lock /\ proc[s].p \in Products) => rowlock[proc[s].p] \in {0, s}
    /\ LET r == AddToCartStep(DB, proc[s], proc[s].c)
       IN /\ Apply(r.db)
          /\ proc' = [proc EXCEPT ![s] = r.loc]
          /\ rowlock' = [p \in Products |-> IF r.loc.locked = p THEN s
                                            ELSE IF rowlock[p] = s THEN 0 ELSE rowlock[p]]
    /\ UNCHANGED last

\* two checkouts: every customer has a cart, and checks out once
InitRace ==
    /\ \E stocks \in [Products -> 0..MaxStock], cartlines \in [Customers -> CartLines] :
          /\ products = InitProducts(stocks, [p \in Products |-> InitPrice(p)])
          /\ lines = cartlines
    /\ carts = [c \in Customers |-> {c}]
    /\ orders = <<>>
    /\ clock = 1
    /\ proc = [s \in Sessions |-> Idle]
    /\ rowlock = [p \in Products |-> 0]
    /\ last = Last("off", TRUE, "", 0, 0, "")

NextRace ==
    \/ \E c \in Customers : BeginCheckout(c)
    \/ \E c \in Customers : StepCheckout(c)

SpecRace == InitRace /\ [][NextRace]_vars

\* one checkout of a shopper, step by step, with cart requests of the same
\* shopper in between
InitCheckoutRace ==
    /\ \E stocks \in [Products -> 1..MaxStock], cartlines \in CartLines :
          /\ products = InitProducts(stocks, [p \in Products |-> InitPrice(p)])
          /\ lines = [c \in Customers |-> IF c \in Shoppers THEN cartlines ELSE <<>>]
    /\ carts = [c \in Customers |-> IF c \in Shoppers THEN {c} ELSE {}]
    /\ orders = <<>>
    /\ clock = 1
    /\ proc = [s \in Sessions |-> Idle]
    /\ rowlock = [p \in Products |-> 0]
    /\ last = Last("none", TRUE, "", 0, 0, "")

NextCheckoutRace ==
    \/ \E c \in Shoppers : BeginCheckout(c)
    \/ \E c \in Shoppers : StepCheckout(c)
    \/ \E c \in Shoppers, p \in Products, q \in Quantities,
          op \in {"add_to_cart", "update_cart_item", "remove_from_cart"} : CartRequest(op, c, p, q)

SpecCheckoutRace == InitCheckoutRace /\ [][NextCheckoutRace]_vars

\* one checkout of a shopper, step by step, with price updates of an admin
\* in between
NextPriceRace ==
    \/ \E c \in Shoppers : BeginCheckout(c)
    \/ \E c \in Shoppers : StepCheckout(c)
    \/ \E p \in Products : \E price \in {InitPrice(p), InitPrice(p) - 1} : ProductRequest(p, [price |-> price])

SpecPriceRace == InitCheckoutRace /\ [][NextPriceRace]_vars

\* add_to_cart calls of the customers, under the row lock
InitLock ==
    /\ \E stocks \in [Products -> 0..MaxStock] :
          products = InitProducts(stocks, [p \in Products |-> InitPrice(p)])
    /\ carts = [c \in Customers |-> {}]
    /\ lines = [c \in Customers |-> <<>>]
    /\ orders = <<>>
    /\ clock = 1
    /\ proc = [s \in Sessions |-> Idle]
    /\ rowlock = [p \in Products |-> 0]
    /\ last = Last("off", TRUE, "", 0, 0, "")

NextLock ==
    \/ \E c \in Customers, p \in Products, q \in Quantities : BeginAddToCart(c, c, p, q, TRUE)
    \/ \E c \in Customers : StepAddToCart(c)
    \/ \E c \in Customers : Return(c)

SpecLock == InitLock /\ [][NextLock]_vars

\* ------------------------------------------------ the stock requests of
\* the inventory staff: single adjustments and bulk updates.  A bulk entry
\* names a product, no product or a product that does not exist.
BulkEntries ==
    {[product_id |-> p, quantity |-> q] : p \in Products \cup {NoProduct, Max(Products) + 1},
                                          q \in (0 - 1)..MaxStock}

BulkUpdates == {<<u>> : u \in BulkEntries} \cup {<<u, v>> : u \in BulkEntries, v \in BulkEntries}

InitStock == Init

NextStock ==
    \/ \E p \in Products \cup {NoProduct}, q \in (0 - MaxQty)..MaxQty,
          operation \in {"add", "subtract", "set", "replace"} : AdjustStock(p, q, operation)
    \/ \E updates \in BulkUpdates : BulkUpdateStock(updates)

SpecStock == InitStock /\ [][NextStock]_vars

\* ------------------------------------------------ the operations of the
\* cart service, one request at a time, between stock adjustments and
\* deactivations of products
InitCartOps == Init

NextCartOps ==
    \/ \E c \in Shoppers : GetOrCreateCart(c)
    \/ \E c \in Shoppers, p \in Products \cup {NoProduct}, q \in 0..(MaxQty + 1) : AddToCart(c, p, q)
    \/ \E c \in Shoppers, p \in Products \cup {NoProduct}, q \in 0..(MaxQty + 1) : UpdateCartItem(c, p, q)
    \/ \E c \in Shoppers, p \in Products : RemoveFromCart(c, p)
    \/ \E c \in Shoppers : ClearCart(c)
    \/ \E c \in Shoppers : ValidateCart(c)
    \/ \E p \in Products, q \in 0..MaxStock : AdjustStock(p, q, "set")
    \/ \E p \in Ordered : DeleteProduct(p)

SpecCartOps == InitCartOps /\ [][NextCartOps]_vars

\* ------------------------------------------------ checkouts of carts whose
\* products are deactivated or restocked after they were put into the cart
InitShop == Init

NextShop ==
    \/ \E c \in Shoppers, p \in Products, q \in Quantities : AddToCart(c, p, q)
    \/ \E p \in Products : DeleteProduct(p)
    \/ \E p \in Products, q \in 0..MaxStock : AdjustStock(p, q, "set")
    \/ \E c \in Shoppers : ValidateCart(c)
    \/ \E c \in Shoppers : Checkout(c, Max(FailPoints), TRUE, TRUE)

SpecShop == InitShop /\ [][NextShop]_vars

\* ------------------------------------------------ the cart of a customer
\* under requests of two sessions, which may be of the same customer and
\* about the same product; use_lock = FALSE stands for a database on which
\* FOR UPDATE takes no lock
BeginGetOrCreateCart(s, c) ==
    /\ proc[s].pc = "idle"
    /\ proc' = [proc EXCEPT ![s] = [GetOrCreateCartCall EXCEPT !.c = c]]
    /\ UNCHANGED <<products, carts, lines, orders, clock, rowlock, last>>

StepGetOrCreateCart(s) ==
    /\ proc[s].op = "get_or_create_cart"
    /\ ~Finished(proc[s])
    /\ LET r == GetOrCreateCartStep(DB, proc[s], proc[s].c)
       IN /\ Apply(r.db)
          /\ proc' = [proc EXCEPT ![s] = r.loc]
    /\ UNCHANGED <<rowlock, last>>

InitCart ==
    /\ \E stocks \in [Products -> 0..MaxStock] :
          /\ \A p \in Products \ Ordered : stocks[p] = MaxStock
          /\ products = InitProducts(stocks, [p \in Products |-> InitPrice(p)])
    /\ carts = [c \in Customers |-> {}]
    /\ lines = [c \in Customers |-> <<>>]
    /\ orders = <<>>
    /\ clock = 1
    /\ proc = [s \in Sessions |-> Idle]
    /\ rowlock = [p \in Products |-> 0]
    /\ last = Last("off", TRUE, "", 0, 0, "")

NextCart ==
    \/ \E s \in Sessions, c \in Customers : BeginGetOrCreateCart(s, c)
    \/ \E s \in Sessions : StepGetOrCreateCart(s)
    \/ \E s \in Sessions, c \in Customers, p \in Ordered, q \in Quantities, use_lock \in BOOLEAN :
          BeginAddToCart(s, c, p, q, use_lock)
    \/ \E s \in Sessions : StepAddToCart(s)
    \/ \E s \in Sessions : Return(s)
    \/ \E c \in Customers, p \in Ordered : RemoveFromCart(c, p)

SpecCart == InitCart /\ [][NextCart]_vars

\* ------------------------------------------------ the order snapshot: the
\* store after one checkout, then catalogue updates, stock adjustments, cart
\* operations and order updates (no history is kept)
ProductUpdates ==
    {[name |-> "renamed", price |-> 999], [price |-> 0], [sku |-> "sku9"], [sku |-> InitSku(2)]}

InitSnapshot ==
    /\ \E c \in Shoppers, cartlines \in CartLines :
          LET r == AfterCheckout([p \in Products |-> MaxStock], c, cartlines)
          IN /\ cartlines # <<>>
             /\ \A i \in DOMAIN cartlines : cartlines[i].product_id \in Ordered
             /\ r.loc.ok
             /\ products = r.db.products
             /\ carts = r.db.carts
             /\ lines = r.db.lines
             /\ orders = r.db.orders
    /\ clock = 1
    /\ proc = [s \in Sessions |-> Idle]
    /\ rowlock = [p \in Products |-> 0]
    /\ last = Last("off", TRUE, "", 0, 0, "")

NextSnapshot ==
    \/ \E p \in Ordered, data \in ProductUpdates : UpdateProduct(p, data)
    \/ \E p \in Ordered : DeleteProduct(p)
    \/ \E p \in Ordered, q \in {0 - 1, MaxQty}, operation \in {"add", "subtract", "set"} :
          AdjustStock(p, q, operation)
    \/ \E c \in Shoppers, p \in Ordered, q \in Quantities : AddToCart(c, p, q)
    \/ \E c \in Shoppers, p \in Ordered, q \in Quantities : UpdateCartItem(c, p, q)
    \/ \E c \in Shoppers, p \in Ordered : RemoveFromCart(c, p)
    \/ \E c \in Shoppers : ClearCart(c)
    \/ \E o \in DOMAIN orders, status \in OrderStatusValues : UpdateOrderStatus(o, status)
    \/ \E o \in DOMAIN orders : CancelOrder(o)
    \/ \E o \in DOMAIN orders : ProcessRefund(o)
    \/ \E o \in DOMAIN orders, payment_status \in PaymentStatusValues : UpdatePaymentStatus(o, payment_status)

SpecSnapshot == InitSnapshot /\ [][NextSnapshot]_vars

\* =================================================================== claims
CheckoutEnded == last'.op = "checkout"
Shopper == last'.c
LineShort(c) == \E i \in 1..Len(lines[c]) : lines[c][i].quantity > products[lines[c][i].product_id].stock_quantity
StoreUnchanged == orders' = orders /\ products' = products /\ lines' = lines /\ carts' = carts

\* C1: a create_order_from_cart that fails leaves no Order and no OrderItem of
\* that call, every stock_quantity as before and the cart's lines unchanged.
C1_CheckoutAtomicity == [][(CheckoutEnded /\ ~last'.ok) => StoreUnchanged]_vars

\* C2: after any sequence of add_to_cart, create_order_from_cart and stock
\* adjustments, each run to completion, every stock_quantity is >= 0.
C2_StockNonNegative == \A p \in Products : products[p].stock_quantity >= 0

\* C7: a successful create_order_from_cart creates one pending Order with one
\* OrderItem per cart line (same product and quantity), decreases each
\* product's stock by its line quantity and leaves the cart row with no lines.
C7_CheckoutEffect ==
    [][(CheckoutEnded /\ last'.ok) =>
          /\ Len(orders') = Len(orders) + 1
          /\ \A i \in 1..Len(orders) : orders'[i] = orders[i]
          /\ LET c == Shopper
                 o == orders'[Len(orders')]
             IN /\ o.customer_id = c /\ o.status = PENDING /\ o.payment_status = PENDING
                /\ Len(lines[c]) > 0
                /\ Len(o.items) = Len(lines[c])
                /\ \A i \in 1..Len(lines[c]) :
                      /\ o.items[i].product_id = lines[c][i].product_id
                      /\ o.items[i].quantity = lines[c][i].quantity
                /\ \A p \in Products :
                      products'[p].stock_quantity = products[p].stock_quantity - QtyOf(lines[c], p)
                /\ carts'[c] = carts[c] /\ carts'[c] # {} /\ lines'[c] = <<>>]_vars

C7_Witness ==
    /\ last.op = "checkout" /\ last.ok
    /\ Len(orders[last.o].items) = 2
    /\ carts[last.c] # {} /\ lines[last.c] = <<>>

\* C8: a create_order_from_cart that starts with a line short of stock, with
\* no cart or with an empty cart fails and changes no order, stock or cart.
C8_CheckoutRejected ==
    [][(CheckoutEnded /\ (carts[Shopper] = {} \/ lines[Shopper] = <<>> \/ LineShort(Shopper)))
          => (~last'.ok /\ StoreUnchanged)]_vars

\* a rejected checkout of a two-line cart of which one line had enough stock
C8_Witness ==
    /\ last.op = "checkout" /\ ~last.ok /\ last.err = "Insufficient stock"
    /\ Len(lines[last.c]) = 2
    /\ LineShort(last.c)
    /\ \E i \in 1..2 : lines[last.c][i].quantity <= products[lines[last.c][i].product_id].stock_quantity

\* the value of the cart lines of customer c at the prices of the moment
LinesValue(c) == SumSeq([i \in 1..Len(lines[c]) |-> lines[c][i].quantity * products[lines[c][i].product_id].price])

\* C9: subtotal is the value of the cart lines, tax is 10% of it,
\* shipping is 10.00 and total = subtotal + tax + shipping_cost, in cents.
C9_TotalsExact ==
    [][(CheckoutEnded /\ last'.ok) =>
          LET o == orders'[last'.o]
          IN /\ o.subtotal = LinesValue(Shopper)
             /\ 10 * o.tax = o.subtotal
             /\ o.shipping_cost = 1000
             /\ o.total = o.subtotal + o.tax + o.shipping_cost]_vars

CancelRequested ==
    /\ last'.o \in DOMAIN orders
    /\ \/ last'.op = "cancel_order"
       \/ last'.op = "update_order_status" /\ last'.arg = CANCELLED

RefundRequested ==
    /\ last'.o \in DOMAIN orders
    /\ \/ last'.op = "process_refund"
       \/ last'.op = "update_order_status" /\ last'.arg = REFUNDED

StockUnchanged == \A p \in Products : products'[p].stock_quantity = products[p].stock_quantity
StockRestored(o) ==
    \A p \in Products : products'[p].stock_quantity = products[p].stock_quantity + QtyOf(orders[o].items, p)

\* C5: cancelling a pending, confirmed, processing or shipped order adds each
\* item's quantity to its product's stock; cancelling an order that is already
\* cancelled leaves every stock_quantity unchanged.
C5_CancelRestoresOnce ==
    [][CancelRequested =>
          /\ orders[last'.o].status \in {PENDING, CONFIRMED, PROCESSING, SHIPPED}
                => (last'.ok /\ orders'[last'.o].status = CANCELLED /\ StockRestored(last'.o))
          /\ orders[last'.o].status = CANCELLED => StockUnchanged]_vars

\* a two-line order cancelled by cancel_order
C5_Witness ==
    /\ last.op = "cancel_order" /\ last.ok
    /\ orders[last.o].status = CANCELLED
    /\ Len(orders[last.o].items) = 2
    /\ orders[last.o].items[1].quantity # orders[last.o].items[2].quantity

\* C6: setting an order refunded restores stock only from a status other than
\* cancelled and refunded; on an order already refunded or cancelled it leaves
\* every stock_quantity unchanged.
C6_RefundRestoresOnce ==
    [][RefundRequested =>
          IF orders[last'.o].status \in {CANCELLED, REFUNDED}
          THEN StockUnchanged
          ELSE StockRestored(last'.o)]_vars

\* C10: once an order exists, no product update, soft delete, stock adjustment,
\* cart operation or status / payment-status update changes the product_name,
\* product_sku, unit_price or quantity of any of its OrderItems.
C10_SnapshotImmutable ==
    [][\A o \in DOMAIN orders :
          /\ o \in DOMAIN orders'
          /\ Len(orders'[o].items) = Len(orders[o].items)
          /\ \A i \in 1..Len(orders[o].items) :
                /\ orders'[o].items[i].product_name = orders[o].items[i].product_name
                /\ orders'[o].items[i].product_sku = orders[o].items[i].product_sku
                /\ orders'[o].items[i].unit_price = orders[o].items[i].unit_price
                /\ orders'[o].items[i].quantity = orders[o].items[i].quantity]_vars

\* an item that still holds the name, sku and price its product had at the
\* checkout, after the product was renamed, repriced, given another sku and
\* soft-deleted and the order went on to another status
C10_Witness ==
    \E o \in DOMAIN orders : \E i \in 1..Len(orders[o].items) :
        LET it == orders[o].items[i]
            pr == products[it.product_id]
        IN /\ it.product_name = InitName(it.product_id) /\ pr.name # it.product_name
           /\ it.unit_price = InitPrice(it.product_id) /\ pr.price # it.unit_price
           /\ it.product_sku = InitSku(it.product_id) /\ pr.sku # it.product_sku
           /\ ~pr.is_active
           /\ orders[o].status = SHIPPED /\ orders[o].payment_status = PAID

\* C3 (as stated): while checkouts of different customers interleave, no
\* product's stock_quantity is negative.
C3_InterleavedCheckoutsKeepStock ==
    \A p \in Products :
        (\E c \in Customers : proc[c].op = "checkout") => ~(products[p].stock_quantity < 0)

\* C4 (as stated): of two add_to_cart calls of different customers for the
\* same product, under the row lock, whose quantities together exceed the
\* stock, never both succeed.
BothAdded(c1, c2) ==
    /\ c1 # c2
    /\ proc[c1].op = "add_to_cart" /\ proc[c1].pc = "done" /\ proc[c1].ok /\ proc[c1].use_lock
    /\ proc[c2].op = "add_to_cart" /\ proc[c2].pc = "done" /\ proc[c2].ok /\ proc[c2].use_lock
    /\ proc[c1].p = proc[c2].p
    /\ proc[c1].q + proc[c2].q > products[proc[c1].p].stock_quantity

GetOrCreateEnded(s) == proc[s].op = "get_or_create_cart" /\ proc[s].pc = "done" /\ proc[s].ok

\* C11: in every reachable state a customer has at most one Cart row, also
\* when get_or_create_cart / first add_to_cart calls of one customer
\* interleave; a Cart row once created stays the customer's cart, and every
\* successful get_or_create_cart returns the id of that row
C11_OneCartPerCustomer ==
    /\ [](\A c \in Customers : Cardinality(carts[c]) <= 1)
    /\ [][\A c \in Customers : carts[c] # {} => carts'[c] = carts[c]]_vars
    /\ [](\A s \in Sessions : GetOrCreateEnded(s) => carts[proc[s].c] = {proc[s].cart_id})

\* two sessions of one customer were both past the lookup that found no
\* cart: one created the cart, the other's INSERT was refused
C11_Witness ==
    \E s, t \in Sessions :
        /\ s # t /\ proc[s].c = proc[t].c
        /\ GetOrCreateEnded(s)
        /\ proc[t].pc = "error" /\ proc[t].err \in {"Failed to get cart", "IntegrityError"}
        /\ Cardinality(carts[proc[s].c]) = 1

\* ---------------------------------------------------------------- C14
ProductsOf(rows) == [i \in 1..Len(rows) |-> rows[i].product_id]

OneLinePerProduct(rows) == \A i, j \in 1..Len(rows) : i # j => rows[i].product_id # rows[j].product_id

\* session s commits the write of its add_to_cart in this step
AddWritten(s) == proc[s].op = "add_to_cart" /\ proc[s].pc = "write" /\ proc'[s].pc = "done"

\* C14: in every reachable state a cart has at most one CartItem per product,
\* also when add_to_cart calls of one customer for one product interleave;
\* an add_to_cart that succeeds for a product with a line in the cart adds no
\* line: it writes the quantity it found plus the quantity asked for to the
\* existing line
C14_OneLinePerProduct ==
    /\ [](\A c \in Customers : OneLinePerProduct(lines[c]))
    /\ [][\A s \in Sessions :
            (AddWritten(s) /\ RowIndex(lines[proc[s].c], proc[s].p) # 0) =>
                /\ ProductsOf(lines'[proc[s].c]) = ProductsOf(lines[proc[s].c])
                /\ proc[s].found >= 1
                /\ RowQty(lines'[proc[s].c], proc[s].p) = proc[s].found + proc[s].q]_vars

\* two add_to_cart calls of one customer for one product had both found no
\* line: one inserted the line, the INSERT of the other was refused
C14_Witness ==
    \E s, t \in Sessions :
        /\ s # t /\ proc[s].c = proc[t].c /\ proc[s].p = proc[t].p
        /\ proc[s].op = "add_to_cart" /\ proc[s].pc = "done" /\ proc[s].found = 0
        /\ proc[t].op = "add_to_cart" /\ proc[t].pc = "error" /\ proc[t].err = "IntegrityError"
        /\ proc[t].found = 0 /\ carts[proc[t].c] # {} /\ CartId(DB, proc[t].c) # 0
        /\ Len(lines[proc[s].c]) = 1

\* ---------------------------------------------------------------- C12
\* every add_to_cart in flight took the row lock of its product (the route
\* always asks for it)
AllLocked == \A s \in Sessions : proc[s].op = "add_to_cart" => proc[s].use_lock

\* C12: after every successful add_to_cart the quantity of the line is
\* between 1 and 100 and at most the stock_quantity of the product (the stock
\* does not change in SpecCart, so it is the stock the operation read)
C12_QuantityWithinStock ==
    [][\A s \in Sessions :
          (AddWritten(s) /\ AllLocked) =>
              /\ RowQty(lines'[proc[s].c], proc[s].p) \in 1..MaxPerItem
              /\ RowQty(lines'[proc[s].c], proc[s].p) <= products[proc[s].p].stock_quantity]_vars

\* ---------------------------------------------------------------- C13
CartOps == {"get_or_create_cart", "add_to_cart", "update_cart_item", "remove_from_cart",
            "clear_cart", "validate_cart_for_checkout"}

\* C13: no operation of the cart service, succeeding or failing, changes the
\* stock_quantity of any product
C13_CartKeepsStock == [][last'.op \in CartOps => StockUnchanged]_vars

\* the quantity of a line was set to all the stock there is
C13_Witness ==
    /\ last.op = "update_cart_item" /\ last.ok
    /\ \E i \in 1..Len(lines[last.c]) :
          /\ lines[last.c][i].quantity = MaxStock
          /\ products[lines[last.c][i].product_id].stock_quantity = MaxStock

\* ---------------------------------------------------------------- C15
Stamps == {"confirmed_at", "shipped_at", "delivered_at"}

\* C15: a confirmed_at, shipped_at or delivered_at that has been set is not
\* changed by any later status update, also when the order is given that
\* status again after other statuses
C15_StampsKept ==
    [][\A o \in DOMAIN orders : \A f \in Stamps : orders[o][f] # 0 => orders'[o][f] = orders[o][f]]_vars

\* an order confirmed, then shipped at a later time, then confirmed again at
\* a still later time: confirmed_at is the time of the first confirmation
C15_Witness ==
    \E o \in DOMAIN orders :
        /\ orders[o].status = CONFIRMED
        /\ orders[o].confirmed_at # 0
        /\ orders[o].confirmed_at < orders[o].shipped_at
        /\ orders[o].shipped_at < clock

\* ---------------------------------------------------------------- C16
\* session s takes a step of its customer-facing cancellation
CancelActs(s) == proc[s].op = "cancel_route" /\ proc'[s] # proc[s] /\ proc[s].o \in DOMAIN orders

\* C16: the customer-facing cancellation changes neither the status nor the
\* stock when the order is delivered, cancelled or refunded at the moment the
\* cancellation is applied, also when a staff status update came between
\* the route's status check and its update
C16_CancelKeepsTerminal ==
    [][\A s \in Sessions :
          (CancelActs(s) /\ orders[proc[s].o].status \in NotCancellable) =>
              /\ orders'[proc[s].o].status = orders[proc[s].o].status
              /\ StockUnchanged]_vars

\* ---------------------------------------------------------------- C17
StatusChanged(o) == orders'[o].status # orders[o].status

\* C17: no request of a cashier changes the status of an order to a value
\* other than confirmed or processing
C17_CashierStatuses ==
    [][last'.role = CASHIER =>
          \A o \in DOMAIN orders : StatusChanged(o) => orders'[o].status \in {CONFIRMED, PROCESSING}]_vars

\* ---------------------------------------------------------------- C18
RefundAsked ==
    \/ last'.op = "process_refund"
    \/ last'.op = "update_order_status" /\ last'.arg = REFUNDED
    \/ last'.op = "update_payment_status" /\ last'.arg = REFUNDED

BecomesRefunded(o) ==
    \/ orders'[o].status = REFUNDED /\ orders[o].status # REFUNDED
    \/ orders'[o].payment_status = REFUNDED /\ orders[o].payment_status # REFUNDED

\* C18: status or payment_status becomes refunded only in a request of an
\* admin; a request of a manager, cashier or customer to set the status
\* refunded, to set the payment status refunded or to process a refund is
\* rejected and leaves the orders and the stock as they were
C18_RefundIsAdminOnly ==
    [][/\ \A o \in DOMAIN orders : BecomesRefunded(o) => last'.role = ADMIN
       /\ (RefundAsked /\ last'.role \in {MANAGER, CASHIER, CUSTOMER}) =>
             (~last'.ok /\ orders' = orders /\ products' = products)]_vars

\* a manager's request to refund a delivered, paid order was rejected
C18_Witness ==
    /\ last.op = "process_refund" /\ last.role = MANAGER /\ ~last.ok
    /\ last.o \in DOMAIN orders
    /\ orders[last.o].status = DELIVERED
    /\ orders[last.o].payment_status = PAID

\* ---------------------------------------------------------------- C19
\* C19: a payment_status that is refunded is changed to another value only
\* in a request of an admin
C19_RefundReversalIsAdminOnly ==
    [][\A o \in DOMAIN orders :
          (orders[o].payment_status = REFUNDED /\ orders'[o].payment_status # REFUNDED) =>
              last'.role = ADMIN]_vars

\* ---------------------------------------------------------------- C20
\* C20: when process_refund has ended, with success or after a failure part
\* of the way, the status and the payment status of the order are both
\* refunded or both as they were
C20_RefundIsOneOperation ==
    [][(last'.op = "process_refund" /\ last'.o \in DOMAIN orders) =>
          \/ orders'[last'.o].status = REFUNDED /\ orders'[last'.o].payment_status = REFUNDED
          \/ /\ orders'[last'.o].status = orders[last'.o].status
             /\ orders'[last'.o].payment_status = orders[last'.o].payment_status]_vars

\* ---------------------------------------------------------------- C21
\* C21: add_to_cart and update_cart_item fail for a product whose is_active
\* is false, and leave the lines of the cart as they were
C21_InactiveProductRefused ==
    [][(/\ last'.op \in {"add_to_cart", "update_cart_item"}
        /\ last'.p \in Products
        /\ ~products[last'.p].is_active) =>
            (~last'.ok /\ lines' = lines)]_vars

\* ---------------------------------------------------------------- C22
\* the cart of c exists, has a line, and every line is of an active product
\* and of a quantity the stock covers
ReadyForCheckout(c) ==
    /\ carts[c] # {}
    /\ Len(lines[c]) >= 1
    /\ \A i \in 1..Len(lines[c]) :
          /\ products[lines[c][i].product_id].is_active
          /\ lines[c][i].quantity <= products[lines[c][i].product_id].stock_quantity

\* C22: validate_cart_for_checkout returns (True, "") exactly when the cart
\* exists, has at least one line, every line's product is active and every
\* line's quantity is at most the stock; otherwise it returns False with a
\* reason; it changes no cart, product or order
C22_ValidateIsExact ==
    [][last'.op = "validate_cart_for_checkout" =>
          /\ last'.ok <=> ReadyForCheckout(last'.c)
          /\ last'.ok => last'.err = ""
          /\ ~last'.ok => last'.err # ""
          /\ StoreUnchanged]_vars

\* a cart whose line is covered by the stock was refused because its product
\* is no longer active
C22_Witness ==
    /\ last.op = "validate_cart_for_checkout" /\ ~last.ok
    /\ last.err = "Product is no longer available"
    /\ Len(lines[last.c]) >= 1
    /\ \A i \in 1..Len(lines[last.c]) :
          lines[last.c][i].quantity <= products[lines[last.c][i].product_id].stock_quantity

\* ---------------------------------------------------------------- C23
\* C23: a bulk stock update of which an entry fails changes the
\* stock_quantity of no product
C23_BulkAllOrNothing == [][(last'.op = "bulk_update_stock" /\ ~last'.ok) => StockUnchanged]_vars

\* ---------------------------------------------------------------- C24
OnlyStockOf(p, n) ==
    /\ products'[p].stock_quantity = n
    /\ \A r \in Products \ {p} : products'[r].stock_quantity = products[r].stock_quantity

\* C24: update_stock in mode subtract fails and changes nothing when
\* current - delta < 0 and else sets the stock to current - delta; in mode set
\* it fails and changes nothing when delta < 0 and else sets the stock to
\* delta; an unknown mode or an unknown product fails and changes no stock
C24_UpdateStockModes ==
    [][last'.op = "update_stock" =>
          LET p == last'.p
              delta == last'.q
              rejected == ~last'.ok /\ StockUnchanged
          IN /\ p \notin Products => rejected
             /\ last'.arg \notin {"add", "subtract", "set"} => rejected
             /\ (p \in Products /\ last'.arg = "subtract") =>
                   IF products[p].stock_quantity - delta < 0 THEN rejected
                   ELSE last'.ok /\ OnlyStockOf(p, products[p].stock_quantity - delta)
             /\ (p \in Products /\ last'.arg = "set") =>
                   IF delta < 0 THEN rejected
                   ELSE last'.ok /\ OnlyStockOf(p, delta)]_vars

\* more units than there are were to be taken from the stock of a product
C24_Witness ==
    /\ last.op = "update_stock" /\ last.arg = "subtract" /\ ~last.ok
    /\ last.p \in Products
    /\ products[last.p].stock_quantity >= 1
    /\ last.q > products[last.p].stock_quantity

\* ---------------------------------------------------------------- C25
InOrderItem(p) == \E o \in DOMAIN orders : \E i \in DOMAIN orders[o].items : orders[o].items[i].product_id = p

\* C25: a Product row that an OrderItem references is never deleted: the
\* permanent delete of such a product is refused and leaves the product and
\* the OrderItems in place
C25_ReferencedProductKept ==
    [][\A p \in DOMAIN products :
          InOrderItem(p) =>
              /\ p \in DOMAIN products'
              /\ orders' = orders
              /\ (last'.op = "permanently_delete_product" /\ last'.p = p) => ~last'.ok]_vars

\* ---------------------------------------------------------------- C26
\* C26: an add_to_cart that took the row lock of its product (use_lock) still
\* holds it when the write of its CartItem is committed: no commit or
\* rollback of the call comes between the stock check and that write, also
\* when the call creates the cart
C26_LockHeldUntilWrite ==
    [][\A s \in Sessions :
          (AddWritten(s) /\ proc[s].use_lock) => rowlock[proc[s].p] = s]_vars

\* ---------------------------------------------------------------- C27
\* the units of product p in the OrderItems of the orders ords that are
\* neither cancelled nor refunded
RECURSIVE Committed(_, _)
Committed(ords, p) ==
    IF ords = <<>> THEN 0
    ELSE (IF Head(ords).status \in {CANCELLED, REFUNDED} THEN 0 ELSE QtyOf(Head(ords).items, p))
         + Committed(Tail(ords), p)

\* C27: for every product, stock_quantity plus the quantities of its
\* OrderItems in orders that are neither cancelled nor refunded is left
\* unchanged by every status update, cancellation and refund of an order
C27_StockConserved ==
    [][\A p \in Products :
          products'[p].stock_quantity + Committed(orders', p)
              = products[p].stock_quantity + Committed(orders, p)]_vars

\* ---------------------------------------------------------------- C28
\* C28: create_order_from_cart succeeds only in a state in which
\* validate_cart_for_checkout returns (True, ""): the cart exists, has a
\* line, every line's product is active and in stock for the line's quantity;
\* no OrderItem is created and no stock taken for an inactive product
C28_CheckoutOnlyOfValidCart ==
    [][(CheckoutEnded /\ last'.ok) =>
          /\ ReadyForCheckout(Shopper)
          /\ CartService_validate_cart_for_checkout(DB, Shopper).ok]_vars

\* ---------------------------------------------------------------- C29
\* the lines (product and quantity) of a sequence of cart lines or order items
LineSet(rows) == {<<rows[i].product_id, rows[i].quantity>> : i \in DOMAIN rows}

\* the checkout of customer c takes its last step, the clearing of the cart
Clears(c) == proc[c].op = "checkout" /\ proc[c].pc = "clear" /\ proc'[c].pc = "done"

\* C29: when cart requests of a customer come between the steps of that
\* customer's create_order_from_cart, the OrderItems of the order are exactly
\* the cart lines that passed the stock check of the checkout, and the final
\* clearing deletes no cart line that is not an OrderItem of the order
C29_OrderIsCheckedCart ==
    [][\A c \in Shoppers :
          Clears(c) =>
              /\ LineSet(orders[proc[c].o].items) = LineSet(proc[c].checked)
              /\ LineSet(lines[c]) \subseteq LineSet(orders[proc[c].o].items)]_vars

\* ---------------------------------------------------------------- C30
\* sum of unit_price x quantity over the items of an order
ItemsValue(items) == SumSeq([i \in 1..Len(items) |-> items[i].unit_price * items[i].quantity])

\* the checkout that creates order o has not yet written all of its items
InCreation(o) == \E c \in Customers : proc[c].op = "checkout" /\ proc[c].o = o /\ proc[c].pc # "done"

\* C30: the subtotal of every order is the sum of unit_price x quantity over
\* its OrderItems, also when a price update is committed between the
\* computation of the subtotal and the snapshot of the items
C30_SubtotalIsItemSum ==
    \A o \in DOMAIN orders : ~InCreation(o) => orders[o].subtotal = ItemsValue(orders[o].items)

====
